---- MODULE Spec2Model ----
(***************************************************************************)
(* Message passing in basics/6_message_passing: the two SAGEConv.forward   *)
(* methods and the user-defined message function u_mul_e_udf, run on a     *)
(* homogeneous graph g with scalar node feature h and scalar edge weight w.*)
(* Tensors are sequences of rows; a row of 'h', 'w' and 'm' is an integer, *)
(* a row of 'h_neigh' and of the module's output is an exact fraction      *)
(* <<numerator, denominator>> in lowest terms (rounding is not modelled).  *)
(* update_all is unfolded into one step per edge (message + delivery) and  *)
(* one step per node (reduce), taken in any order the data allows.         *)
(***************************************************************************)
EXTENDS Integers, Sequences, FiniteSets, TLC

\* ----------------------------------------------------------------- bounds
NumNodes == 2
MaxEdges == 2
HVals == 1..2
WVals == 1..2
\* weight and bias of self.linear; with these the output is negative before
\* F.relu for some inputs and positive for others
LinearParams == {[W |-> <<1, -2>>, b |-> 1]}

Nodes == 1..NumNodes
Graphs == {E \in SUBSET (Nodes \X Nodes) : Cardinality(E) \in 1..MaxEdges}

\* ------------------------------------------------------------- arithmetic
Abs(x) == IF x < 0 THEN -x ELSE x

RECURSIVE GCD(_, _)
GCD(a, b) == IF b = 0 THEN a ELSE GCD(b, a % b)

\* the fraction n/d (d > 0) in lowest terms
Frac(n, d) == LET g == GCD(Abs(n), d) IN <<n \div g, d \div g>>

Zero == Frac(0, 1)

\* ------------------------------------------------------------------ state
VARIABLES
    variant,      \* which SAGEConv class is called: "sage" (cell 2) or "wsage" (cell 3)
    mfunc,        \* the message function handed to update_all
    linear,       \* parameters of self.linear
    edges,        \* the graph g: its set of edges <<u, v>>
    h, w,         \* the arguments of forward
    ndata, edata, \* g's node and edge feature storage: key -> column
    ndata_before, edata_before, \* the storage when forward was called
    scope,        \* frames saved by the enclosing local_scope()s
    pc,           \* the statement forward is at
    locals,       \* forward's local variables: name -> value
    msgs,         \* message frame of the propagation: edge -> message dict
    applied,      \* how many times the message function ran on each edge
    acc,          \* per destination node: <<sum of delivered 'm', number delivered>>
    out,          \* reduced node -> its 'h_neigh' row
    outcome,      \* "running", "returned" or "raised"
    result        \* the returned tensor, or the exception's name

vars == <<variant, mfunc, linear, edges, h, w, ndata, edata, ndata_before,
          edata_before, scope, pc, locals, msgs, applied, acc, out, outcome, result>>

\* ------------------------------------------------------------- the graph
InEdges(v) == {e \in edges : e[2] = v}

\* homogeneous full graph: every node is an output node
NumberOfDstNodes == NumNodes

\* srcdata and dstdata of a homogeneous graph are ndata
SrcData == ndata
DstData == ndata

\* frame[key] = column
SetItem(frame, key, col) ==
    [k \in DOMAIN frame \cup {key} |-> IF k = key THEN col ELSE frame[k]]

\* the slice that stops one row early
SliceShort(t, n) == SubSeq(t, 1, n - 1)

\* h[:n]
Slice(t, n) == SubSeq(t, 1, IF n < Len(t) THEN n ELSE Len(t))

\* ---------------------------------------------------- message functions
\* the EdgeBatch view of one edge: source node features, edge features,
\* destination node features
EdgeView(e) ==
    [src  |-> [k \in DOMAIN ndata |-> ndata[k][e[1]]],
     dst  |-> [k \in DOMAIN ndata |-> ndata[k][e[2]]],
     data |-> [k \in DOMAIN edata |-> edata[k][e]]]

\* the destination node's feature copied instead of the source node's
Copy_v(u, o, e) == [k \in {o} |-> DstData[u][e[2]]]

\* fn.copy_u(u, o)
Copy_u(u, o, e) == [k \in {o} |-> SrcData[u][e[1]]]

\* the destination node's feature multiplied instead of the source node's
V_mul_e(u, ed, o, e) == [k \in {o} |-> DstData[u][e[2]] * edata[ed][e]]

\* fn.u_mul_e(u, ed, o)
U_mul_e(u, ed, o, e) == [k \in {o} |-> SrcData[u][e[1]] * edata[ed][e]]

\* the user-defined function reading edges.dst instead of edges.src
v_mul_e_udf(edge) == [k \in {"m"} |-> edge.dst["h"] * edge.data["w"]]

\* def u_mul_e_udf(edges)
u_mul_e_udf(edge) == [k \in {"m"} |-> edge.src["h"] * edge.data["w"]]

MessageFunc(e) ==
    CASE mfunc = "copy_u"      -> Copy_u("h", "m", e)
      [] mfunc = "u_mul_e"     -> U_mul_e("h", "w", "m", e)
      [] mfunc = "u_mul_e_udf" -> u_mul_e_udf(EdgeView(e))

\* --------------------------------------------------------- reduce function
\* a delivery that overwrites what was delivered before (a lost update)
DeliverLast(a, m) == <<m, a[2] + 1>>

\* delivery of one message to its destination's accumulator
Deliver(a, m) == <<a[1] + m, a[2] + 1>>

\* the sum of what was delivered, not divided by their number
MeanAsSum(a) == IF a[2] = 0 THEN <<0, 1>> ELSE <<a[1], 1>>

\* fn.mean: the average of what was delivered; 0 for a node that got nothing
Mean(a) == IF a[2] = 0 THEN Zero ELSE Frac(a[1], a[2])

\* a reduce that does not wait for the messages
ReduceAnyTime(v) == TRUE

\* a node may be reduced once every message bound for it is in
ReduceReady(v) == \A e \in InEdges(v) : e \in DOMAIN msgs

\* -------------------------------------------------------------- local_scope
EnterScope(stack, nd, ed) == Append(stack, <<nd, ed>>)

\* leaving the scope without putting the saved frames back
ExitScopeKeep(stack, nd, ed) == <<nd, ed>>

\* leaving the scope puts the saved frames back
ExitScope(stack, nd, ed) == stack[Len(stack)]

\* ------------------------------------------------------------ the module
\* torch.cat([a, b], dim=1)
Cat(a, b) == [i \in 1..Len(a) |-> <<a[i], b[i]>>]

\* self.linear: W[1] * x[1] + W[2] * x[2] + b, x[2] a fraction
Linear(x) == Frac(linear.W[1] * x[1] * x[2][2] + linear.W[2] * x[2][1]
                    + linear.b * x[2][2], x[2][2])

\* F.relu
Relu(q) == IF q[1] < 0 THEN Zero ELSE q

\* ------------------------------------------------------------------ Init
EmptyFrame == [k \in {} |-> 0]

StoredNData ==
    [k \in {"h", "h_neigh"} |->
        IF k = "h" THEN [v \in Nodes |-> 0] ELSE [v \in Nodes |-> Frac(1, 1)]]

StoredEData(E) == [k \in {"w"} |-> [e \in E |-> 0]]

Init ==
    /\ variant \in {"sage", "wsage"}
    /\ mfunc \in IF variant = "sage" THEN {"copy_u"} ELSE {"u_mul_e", "u_mul_e_udf"}
    /\ linear \in LinearParams
    /\ edges \in Graphs
    /\ h \in [Nodes -> HVals]
    /\ w \in IF variant = "sage" THEN {EmptyFrame} ELSE [edges -> WVals]
    /\ \E stored \in BOOLEAN :
         /\ ndata = IF stored THEN StoredNData ELSE EmptyFrame
         /\ edata = IF stored THEN StoredEData(edges) ELSE EmptyFrame
    /\ ndata_before = ndata
    /\ edata_before = edata
    /\ scope = <<>>
    /\ pc = IF variant = "sage" THEN "enter" ELSE "slice"
    /\ locals = EmptyFrame
    /\ msgs = EmptyFrame
    /\ applied = [e \in edges |-> 0]
    /\ acc = [v \in Nodes |-> <<0, 0>>]
    /\ out = EmptyFrame
    /\ outcome = "running"
    /\ result = "none"

\* --------------------------------------------------------------- actions
fixed == <<variant, mfunc, linear, edges, h, w, ndata_before, edata_before>>

\* h_dst = h[:g.number_of_dst_nodes()]
SliceDst ==
    /\ pc = "slice"
    /\ locals' = SetItem(locals, "h_dst", Slice(h, NumberOfDstNodes))
    /\ pc' = "enter"
    /\ UNCHANGED <<fixed, ndata, edata, scope, msgs, applied, acc, out, outcome, result>>

\* with g.local_scope():
WithLocalScope ==
    /\ pc = "enter"
    /\ scope' = EnterScope(scope, ndata, edata)
    /\ pc' = "set_h"
    /\ UNCHANGED <<fixed, ndata, edata, locals, msgs, applied, acc, out, outcome, result>>

\* g.srcdata['h'] = h
SetSrcH ==
    /\ pc = "set_h"
    /\ ndata' = SetItem(SrcData, "h", h)
    /\ pc' = IF variant = "sage" THEN "update_all" ELSE "set_w"
    /\ UNCHANGED <<fixed, edata, scope, locals, msgs, applied, acc, out, outcome, result>>

\* g.edata['w'] = w
SetEdgeW ==
    /\ pc = "set_w"
    /\ edata' = SetItem(edata, "w", w)
    /\ pc' = "update_all"
    /\ UNCHANGED <<fixed, ndata, scope, locals, msgs, applied, acc, out, outcome, result>>

\* g.update_all(message function, fn.mean('m', 'h_neigh')): the call
UpdateAllCall ==
    /\ pc = "update_all"
    /\ pc' = "propagate"
    /\ UNCHANGED <<fixed, ndata, edata, scope, locals, msgs, applied, acc, out,
                   outcome, result>>

\* the message function on one edge, and the delivery of its message
Message(e) ==
    /\ pc = "propagate"
    /\ e \notin DOMAIN msgs
    /\ LET m == MessageFunc(e) IN
         /\ msgs' = SetItem(msgs, e, m)
         /\ acc' = [acc EXCEPT ![e[2]] = Deliver(@, m["m"])]
    /\ applied' = [applied EXCEPT ![e] = @ + 1]
    /\ UNCHANGED <<fixed, ndata, edata, scope, pc, locals, out, outcome, result>>

\* the reduce function on one node
Reduce(v) ==
    /\ pc = "propagate"
    /\ v \notin DOMAIN out
    /\ ReduceReady(v)
    /\ out' = SetItem(out, v, Mean(acc[v]))
    /\ UNCHANGED <<fixed, ndata, edata, scope, pc, locals, msgs, applied, acc,
                   outcome, result>>

\* update_all returns: the reduced rows become the node feature 'h_neigh'
UpdateAllReturn ==
    /\ pc = "propagate"
    /\ DOMAIN out = Nodes
    /\ ndata' = SetItem(DstData, "h_neigh", [v \in Nodes |-> out[v]])
    /\ pc' = "get"
    /\ UNCHANGED <<fixed, edata, scope, locals, msgs, applied, acc, out, outcome, result>>

\* h_neigh = g.dstdata['h_neigh']
GetDstHNeigh ==
    /\ pc = "get"
    /\ locals' = SetItem(locals, "h_neigh", DstData["h_neigh"])
    /\ pc' = "cat"
    /\ UNCHANGED <<fixed, ndata, edata, scope, msgs, applied, acc, out, outcome, result>>

\* an exception leaves the with block: the scope is left, forward raises
Raise(name) ==
    /\ ndata' = ExitScope(scope, ndata, edata)[1]
    /\ edata' = ExitScope(scope, ndata, edata)[2]
    /\ scope' = SubSeq(scope, 1, Len(scope) - 1)
    /\ msgs' = EmptyFrame
    /\ pc' = "done"
    /\ outcome' = "raised"
    /\ result' = name
    /\ UNCHANGED <<fixed, locals, applied, acc, out>>

\* h_total = torch.cat([h_dst, h_neigh], dim=1)
CatTotal ==
    /\ pc = "cat"
    /\ "h_dst" \in DOMAIN locals
    /\ Len(locals["h_dst"]) = Len(locals["h_neigh"])
    /\ locals' = SetItem(locals, "h_total", Cat(locals["h_dst"], locals["h_neigh"]))
    /\ pc' = "linear"
    /\ UNCHANGED <<fixed, ndata, edata, scope, msgs, applied, acc, out, outcome, result>>

\* the same statement where the name h_dst was never bound
CatNameError ==
    /\ pc = "cat"
    /\ "h_dst" \notin DOMAIN locals
    /\ Raise("NameError")

\* return F.relu(self.linear(h_total)), leaving the scope
ReturnRelu ==
    /\ pc = "linear"
    /\ result' = [i \in 1..Len(locals["h_total"]) |-> Relu(Linear(locals["h_total"][i]))]
    /\ ndata' = ExitScope(scope, ndata, edata)[1]
    /\ edata' = ExitScope(scope, ndata, edata)[2]
    /\ scope' = SubSeq(scope, 1, Len(scope) - 1)
    /\ msgs' = EmptyFrame
    /\ pc' = "done"
    /\ outcome' = "returned"
    /\ UNCHANGED <<fixed, locals, applied, acc, out>>

Next ==
    \/ SliceDst
    \/ WithLocalScope
    \/ SetSrcH
    \/ SetEdgeW
    \/ UpdateAllCall
    \/ \E e \in edges : Message(e)
    \/ \E v \in Nodes : Reduce(v)
    \/ UpdateAllReturn
    \/ GetDstHNeigh
    \/ CatTotal
    \/ CatNameError
    \/ ReturnRelu

Spec == Init /\ [][Next]_vars

\* ------------------------------------------------------------ properties
\* the sum of the function f over the finite set S
RECURSIVE SumOver(_, _)
SumOver(S, f) ==
    IF S = {} THEN 0
    ELSE LET x == CHOOSE y \in S : TRUE IN f[x] + SumOver(S \ {x}, f)

InScope == pc \in {"set_w", "update_all", "propagate", "get", "cat", "linear"}
Propagated == pc \in {"get", "cat", "linear"}

\* the edges that enter v
Entering(v) == {e \in edges : e[2] = v}

\* the message h[u] * w[(u, v)], or h[u] where the module has no edge weight
Product(hh, ww, e) == IF variant = "sage" THEN hh[e[1]] ELSE hh[e[1]] * ww[e]

\* the plain average over the edges entering v of the messages built from hh, ww
Average(hh, ww, v) ==
    IF Entering(v) = {} THEN <<0, 1>>
    ELSE Frac(SumOver(Entering(v), [e \in Entering(v) |-> Product(hh, ww, e)]),
              Cardinality(Entering(v)))

C3_GraphSageFormula ==
    (variant = "sage" /\ pc = "done") =>
        /\ outcome = "returned"
        /\ result = [v \in Nodes |-> Relu(Linear(<<h[v], Average(h, w, v)>>))]

\* C4: the h_neigh that the second SAGEConv concatenates with h_dst is the
\* weighted average of h[u] over the edges entering v: the sum of
\* w[(u, v)] * h[u] divided by the sum of the weights w[(u, v)].
C4_WeightedAverage ==
    (variant = "wsage" /\ pc = "cat") =>
        \A v \in Nodes :
            Entering(v) # {} =>
                locals["h_neigh"][v] =
                    Frac(SumOver(Entering(v), [e \in Entering(v) |-> w[e] * h[e[1]]]),
                         SumOver(Entering(v), [e \in Entering(v) |-> w[e]]))

\* C5: fn.mean('m', 'h_neigh') gives every node with at least one entering
\* edge the sum of the messages 'm' on its entering edges divided by their
\* number, and that is the node feature 'h_neigh' after update_all.
C5_MeanOfMessages ==
    \A v \in Nodes :
        Entering(v) # {} =>
            LET avg == Frac(SumOver(Entering(v), [e \in Entering(v) |-> msgs[e]["m"]]),
                            Cardinality(Entering(v)))
            IN /\ (pc = "propagate" /\ v \in DOMAIN out) => out[v] = avg
               /\ Propagated => ndata["h_neigh"][v] = avg

C5_Witness ==
    /\ pc = "get"
    /\ \E v \in Nodes : Cardinality(Entering(v)) = 2 /\ ndata["h_neigh"][v][2] = 2

\* C6: fn.copy_u('h', 'm') puts on every edge (u, v) the message 'm' = h[u],
\* whatever h[v] and the edge features are.
C6_CopyU ==
    mfunc = "copy_u" =>
        \A e \in DOMAIN msgs : DOMAIN msgs[e] = {"m"} /\ msgs[e]["m"] = h[e[1]]

C6_Witness ==
    /\ mfunc = "copy_u"
    /\ "w" \in DOMAIN edata
    /\ \E e \in DOMAIN msgs : h[e[1]] # h[e[2]]

C8_Directional ==
    Propagated =>
        \A v \in Nodes :
        \A h2 \in [Nodes -> HVals] :
        \A w2 \in (IF variant = "sage" THEN {w} ELSE [edges -> WVals]) :
            (\A e \in Entering(v) : h2[e[1]] = h[e[1]] /\ (variant = "wsage" => w2[e] = w[e]))
                => ndata["h_neigh"][v] = Average(h2, w2, v)

\* an edge and its reverse carrying different messages
C8_Witness ==
    /\ pc = "get"
    /\ \E e \in edges :
         /\ e[1] # e[2]
         /\ <<e[2], e[1]>> \in edges
         /\ msgs[e] # msgs[<<e[2], e[1]>>]

\* C9: on the homogeneous full graph srcdata, dstdata and ndata are one
\* storage: the h written through srcdata is read back through dstdata and
\* ndata; number_of_dst_nodes() is the number of nodes, so h_dst is h and has
\* as many rows as h_neigh where the two are concatenated.
C9_OneStorage ==
    /\ InScope => (SrcData["h"] = h /\ DstData["h"] = h /\ ndata["h"] = h)
    /\ NumberOfDstNodes = Len(h)
    /\ "h_dst" \in DOMAIN locals => locals["h_dst"] = h
    /\ (pc = "cat" /\ "h_dst" \in DOMAIN locals) =>
          Len(locals["h_dst"]) = Len(locals["h_neigh"])

C9_Witness ==
    /\ pc = "linear"
    /\ Len(locals["h_total"]) = Cardinality(Nodes)
    /\ \E v \in Nodes : locals["h_total"][v] = <<h[v], DstData["h_neigh"][v]>>

====
